---- MODULE Spec2Model ----
(***************************************************************************)
(* Model of gitpress.repository.Repository and gitpress.previewing.preview *)
(* Paths are modelled as POSIX paths: an absolute/relative flag and the    *)
(* sequence of components, so that os.path.join and os.path.abspath are    *)
(* computed the way posixpath computes them.                               *)
(***************************************************************************)
EXTENDS Naturals, Sequences, FiniteSets

VARIABLES
    cwd,        \* process working directory (sequence of components of an absolute path)
    \* --- Repository.resolve applied twice (pure function) ---
    rin,        \* the (content_directory, repo_directory) arguments
    rout,       \* results of successive applications of resolve
    \* --- file system, Repository.__init__ / from_content / init ---
    fs,         \* existing directories: normalized absolute path -> kind
    vcs,        \* git commands run so far by the last init
    calls,      \* the calls made so far (oldest first) with their outcome
    \* --- an opened repository: config store, themes directory, presenter ---
    cfgPlugins, \* value of config key `plugins`
    cfgTheme,   \* value of config key `theme`
    themesDir,  \* <directory>/themes
    ops,        \* the management calls made so far (oldest first)
    buildCall,  \* the Repository.build calls made so far, as the caller made them
    presenterCall, \* the Presenter.build calls made so far, as the presenter saw them
    \* --- preview ---
    pc, pv, events

pathVars == <<rin, rout>>
fsVars == <<fs, vcs, calls>>
repoVars == <<cfgPlugins, cfgTheme, themesDir, ops, buildCall, presenterCall>>
previewVars == <<pc, pv, events>>
vars == <<cwd, rin, rout, fs, vcs, calls, cfgPlugins, cfgTheme, themesDir, ops,
          buildCall, presenterCall, pc, pv, events>>

----------------------------------------------------------------------------
(* Paths *)

NoPath == [isNone |-> TRUE, abs |-> FALSE, parts |-> <<>>]
Rel(parts) == [isNone |-> FALSE, abs |-> FALSE, parts |-> parts]
Abs(parts) == [isNone |-> FALSE, abs |-> TRUE, parts |-> parts]

\* Repository.default_directory, Config.config_file
default_directory == Rel(<<".gitpress">>)

\* os.path.join(a, b): an absolute b discards a
Join(a, b) == IF b.abs THEN b ELSE [a EXCEPT !.parts = a.parts \o b.parts]

\* posixpath.normpath on the components: "." is dropped, ".." removes the
\* component before it (and is dropped at the root of an absolute path)
RECURSIVE NormParts(_, _, _)
NormParts(isAbs, done, rest) ==
    IF rest = <<>> THEN done
    ELSE LET h == Head(rest) t == Tail(rest) IN
         IF h = "." THEN NormParts(isAbs, done, t)
         ELSE IF h = ".."
              THEN IF done # <<>> /\ done[Len(done)] # ".."
                   THEN NormParts(isAbs, SubSeq(done, 1, Len(done) - 1), t)
                   ELSE IF isAbs THEN NormParts(isAbs, done, t)
                        ELSE NormParts(isAbs, Append(done, h), t)
              ELSE NormParts(isAbs, Append(done, h), t)

\* os.path.abspath(p) = normpath(join(getcwd(), p))
Abspath(p) ==
    LET j == Join(Abs(cwd), p) IN Abs(NormParts(TRUE, <<>>, j.parts))

\* Repository.resolve(content_directory, repo_directory)
resolve(content_directory, repo_directory) ==
    IF ~repo_directory.isNone /\ content_directory.isNone
    THEN <<Join(repo_directory, Rel(<<"..">>)), repo_directory>>
    ELSE LET c1 == IF content_directory.isNone THEN Rel(<<".">>) ELSE content_directory
             r1 == IF repo_directory.isNone THEN default_directory ELSE repo_directory
             c2 == Abspath(c1)
         IN <<c2, Join(c2, r1)>>

\* the location a pair of paths denotes: both made absolute and normalized
Normalize(pair) == <<Abspath(pair[1]), Abspath(pair[2])>>

----------------------------------------------------------------------------
(* Inputs *)

ContentInputs == {NoPath, Rel(<<"c">>), Abs(<<"w", "c">>)}
RepoInputs == {NoPath, Rel(<<"r">>), Rel(<<"a", "r">>), Abs(<<"w", "r">>)}
ResolveContentInputs == ContentInputs \cup {Rel(<<".">>)}
ResolveRepoInputs == RepoInputs \cup {Rel(<<".">>), Rel(<<".gitpress">>)}
WorkingDirs == {<<>>, <<"w">>, <<"w", "c">>}

----------------------------------------------------------------------------
(* Idle values of the variables a specification does not use *)

IdlePath == rin = <<NoPath, NoPath>> /\ rout = <<>>
IdleFs == fs = [p \in {<<>>} |-> "plain"] /\ vcs = <<>> /\ calls = <<>>
IdleRepo == /\ cfgPlugins = [kind |-> "missing", map |-> [n \in {} |-> "{}"]]
            /\ cfgTheme = "None"
            /\ themesDir = [exists |-> FALSE, names |-> {}]
            /\ ops = <<>>
            /\ buildCall = <<>>
            /\ presenterCall = <<>>
IdlePreview == pc = "idle" /\ pv = <<>> /\ events = <<>>

----------------------------------------------------------------------------
(* Repository.resolve applied to its own result *)

InitResolve ==
    /\ cwd \in WorkingDirs
    /\ rin \in {<<c, r>> : c \in ResolveContentInputs, r \in ResolveRepoInputs}
    /\ rout = <<>>
    /\ IdleFs /\ IdleRepo /\ IdlePreview

\* resolve(c, r)
ResolveFirst ==
    /\ rout = <<>>
    /\ rout' = <<resolve(rin[1], rin[2])>>
    /\ UNCHANGED <<cwd, rin, fsVars, repoVars, previewVars>>

\* resolve(*resolve(c, r))
ResolveAgain ==
    /\ Len(rout) = 1
    /\ rout' = Append(rout, resolve(rout[1][1], rout[1][2]))
    /\ UNCHANGED <<cwd, rin, fsVars, repoVars, previewVars>>

NextResolve == ResolveFirst \/ ResolveAgain
SpecResolve == InitResolve /\ [][NextResolve]_vars

\* C7: resolve is idempotent: resolve applied to the pair resolve(c, r)
\* returned denotes the same (content_directory, repo_directory) location
\* as the first result, for omitted, relative and absolute inputs.
C7_ResolveIdempotent ==
    Len(rout) = 2 => Normalize(rout[2]) = Normalize(rout[1])

----------------------------------------------------------------------------
(* File system, Repository.__init__, Repository.from_content, Repository.init *)

\* What a directory holds, as far as Repository.__init__ can tell:
\*   "plain"       a directory without a config file
\*   "badconfig"   a config file that Config() fails to load
\*   "nopresenter" a loadable config, but Presenter.resolve finds no presenter
\*   "valid"       a loadable config and a resolvable presenter
DirKinds == {"plain", "badconfig", "nopresenter", "valid"}

Kind(f, loc) == IF loc \in DOMAIN f THEN f[loc] ELSE "absent"

Prefixes(loc) == {SubSeq(loc, 1, n) : n \in 0..Len(loc)}

\* the file system f with directory loc (and its missing parents) created
WithDir(f, loc, kind) ==
    [p \in DOMAIN f \cup Prefixes(loc) |->
        IF p = loc THEN kind ELSE IF p \in DOMAIN f THEN f[p] ELSE "plain"]

\* Config(config_file): loading the config file fails for a file it cannot parse
ConfigLoads(kind) == kind # "badconfig"

\* Presenter.resolve(repository, presenter)
PresenterResolves(kind) == kind = "valid"

\* Repository.__init__(directory, content_directory): the outcome, and the
\* directory and content_directory of the constructed object
Construct(f, directory, content_directory) ==
    LET d0 == IF directory.isNone THEN Rel(<<".">>) ELSE directory
        pair == resolve(content_directory, d0)
        kind == Kind(f, Abspath(pair[2]).parts)
        res == IF kind = "absent" THEN "RepositoryNotFoundError"
               ELSE IF kind = "plain" THEN "InvalidRepositoryError"
               ELSE IF ~ConfigLoads(kind) THEN "ConfigError"
               ELSE IF ~PresenterResolves(kind) THEN "PresenterNotFoundError"
               ELSE "ok"
    IN [res |-> res, directory |-> pair[2], content_directory |-> pair[1]]

\* templates known to resolve_template, and what copying each one creates
default_template == "default"
TemplateInputs == {"None", "blank", "nosuch"}
TemplateResolves(template) == template \in {"default", "blank"}
TemplateKind(template) == IF template = "default" THEN "valid" ELSE "plain"

\* ProbeVerdict with the RepositoryAlreadyExistsError raised inside the try
\* block swallowed by the handlers
ProbeVerdictExistsSwallowed(res) ==
    IF res \in {"ok", "RepositoryNotFoundError", "InvalidRepositoryError",
                "PresenterNotFoundError"}
    THEN "free"
    ELSE "propagate"

\* ProbeVerdict with a bare except clause
ProbeVerdictCatchAll(res) == IF res = "ok" THEN "exists" ELSE "free"

\* the except clauses of Repository.init around the probing construction
ProbeVerdict(res) ==
    IF res = "ok" THEN "exists"
    ELSE IF res \in {"RepositoryNotFoundError", "InvalidRepositoryError",
                     "PresenterNotFoundError"}
         THEN "free"
         ELSE "propagate"

\* the commit message of Repository.init
CommitMessage(template) ==
    IF template = default_template THEN <<"Add", template, "presentation content.">>
    ELSE <<"Add", "repr", template, "presentation content.">>

\* number of calls followed in one behaviour
MaxCalls == 2

Push(log, rec) == Append(log, rec)

CallRec(op, c, r, t, res, dir, probe, stage) ==
    [op |-> op, content |-> c, repo |-> r, template |-> t, res |-> res,
     directory |-> dir, probe |-> probe, stage |-> stage]

\* git init, git add ., git commit -m message, run in the new directory
GitCommands(target, template) ==
    << [cmd |-> "init", dir |-> target, message |-> <<>>],
       [cmd |-> "add", dir |-> target, message |-> <<>>],
       [cmd |-> "commit", dir |-> target, message |-> CommitMessage(template)] >>

Outcome(res, dir, probe, stage, f, git) ==
    [res |-> res, directory |-> dir, probe |-> probe, stage |-> stage, fs |-> f,
     vcs |-> git]

\* the body of Repository.init run on file system f: its result, the line
\* it got to, and the file system and git commands it leaves behind
InitOutcome(f, c, r, t) ==
    LET template == IF t = "None" THEN default_template ELSE t
        pair == resolve(c, r)
        content_directory == pair[1]
        repo_directory == pair[2]
        probe == Construct(f, repo_directory, content_directory)
        verdict == ProbeVerdict(probe.res)
        target == Abspath(repo_directory).parts
        copied == WithDir(f, target, TemplateKind(template))
        final == Construct(copied, repo_directory, content_directory)
    IN  IF verdict = "exists"
        THEN Outcome("RepositoryAlreadyExistsError", NoPath, probe.res, "probe", f, <<>>)
        ELSE IF verdict = "propagate"
        THEN Outcome(probe.res, NoPath, probe.res, "probe", f, <<>>)
        ELSE IF ~TemplateResolves(template)
        THEN Outcome("TemplateNotFoundError", NoPath, probe.res, "template", f, <<>>)
        ELSE IF target \in DOMAIN f
        THEN \* shutil.copytree refuses an existing destination
             Outcome("OSError", NoPath, probe.res, "copy", f, <<>>)
        ELSE Outcome(final.res, IF final.res = "ok" THEN final.directory ELSE NoPath,
                     probe.res, "lookup", copied, GitCommands(target, template))

\* Repository.init(content_directory, repo_directory, template)
RepoInit(c, r, t) ==
    LET out == InitOutcome(fs, c, r, t) IN
    /\ Len(calls) < MaxCalls
    /\ fs' = out.fs
    /\ vcs' = out.vcs
    /\ calls' = Push(calls, CallRec("init", c, r, t, out.res, out.directory,
                                    out.probe, out.stage))

\* Repository.from_content(content_directory, repo_directory)
FromContent(c, r) ==
    LET content_directory == IF c.isNone THEN Rel(<<".">>) ELSE c
        repo == Construct(fs, r, content_directory)
    IN  /\ Len(calls) < MaxCalls
        /\ calls' = Push(calls, CallRec("from_content", c, r, "None", repo.res,
                        IF repo.res = "ok" THEN repo.directory ELSE NoPath,
                        "none", "lookup"))
        /\ UNCHANGED <<fs, vcs>>

\* directories that may exist before the first call
Candidates == {<<"w", ".gitpress">>, <<"w", "r">>, <<"w", "c">>,
               <<"w", "c", ".gitpress">>}
BaseFs == [p \in Prefixes(<<"w">>) |-> "plain"]

InitFs ==
    /\ cwd = <<"w">>
    /\ fs \in {BaseFs} \cup {WithDir(BaseFs, loc, k) : loc \in Candidates, k \in DirKinds}
    /\ vcs = <<>>
    /\ calls = <<>>
    /\ IdlePath /\ IdleRepo /\ IdlePreview

NextFs ==
    \/ \E c \in ContentInputs, r \in RepoInputs, t \in TemplateInputs :
          RepoInit(c, r, t) /\ UNCHANGED <<cwd, pathVars, repoVars, previewVars>>
    \/ \E c \in ContentInputs, r \in RepoInputs :
          FromContent(c, r) /\ UNCHANGED <<cwd, pathVars, repoVars, previewVars>>

Spec == InitFs /\ [][NextFs]_vars

Suppressed == {"RepositoryNotFoundError", "InvalidRepositoryError",
               "PresenterNotFoundError"}

SameLocation(k1, k2) == k1.content = k2.content /\ k1.repo = k2.repo

\* C1: when an init succeeds, an init at the same (content_directory,
\* repo_directory) made right after it fails with RepositoryAlreadyExistsError
\* and with no other error, whatever the template.
C1_SecondInitAlreadyExists ==
    \A i \in 1..(Len(calls) - 1) :
        ( /\ calls[i].op = "init" /\ calls[i].res = "ok"
          /\ calls[i + 1].op = "init" /\ SameLocation(calls[i], calls[i + 1]) )
        => calls[i + 1].res = "RepositoryAlreadyExistsError"

C1_Witness ==
    /\ Len(calls) = 2
    /\ calls[1].op = "init" /\ calls[1].res = "ok"
    /\ calls[2].op = "init" /\ SameLocation(calls[1], calls[2])
    /\ calls[2].template # calls[1].template
    /\ calls[2].res = "RepositoryAlreadyExistsError"

\* C2: the existence probe of init is triaged exactly: a probe failing with
\* RepositoryNotFoundError, InvalidRepositoryError or PresenterNotFoundError
\* is suppressed and init goes on to the template (the copy is attempted when
\* the template resolves); a probe failing with any other error ends init
\* with that error, the file system untouched and no git command run; a
\* probe that succeeds ends init with RepositoryAlreadyExistsError.
C2_ProbeTriage ==
    [][ (Len(calls') = Len(calls) + 1 /\ calls'[Len(calls')].op = "init") =>
        LET k == calls'[Len(calls')]
            template == IF k.template = "None" THEN default_template ELSE k.template
        IN  /\ k.probe \in Suppressed =>
                /\ k.stage # "probe"
                /\ TemplateResolves(template) => k.stage \in {"copy", "lookup"}
            /\ k.probe = "ok" =>
                /\ k.res = "RepositoryAlreadyExistsError"
                /\ k.stage = "probe" /\ fs' = fs /\ vcs' = <<>>
            /\ k.probe \notin Suppressed \cup {"ok"} =>
                /\ k.res = k.probe
                /\ k.stage = "probe" /\ fs' = fs /\ vcs' = <<>>
      ]_vars

C2_Witness ==
    /\ Len(calls) = 2
    /\ calls[1].op = "init" /\ calls[1].probe \in Suppressed
    /\ calls[1].stage = "lookup" /\ Len(vcs) = 0
    /\ calls[2].op = "init" /\ calls[2].probe = "ConfigError"
    /\ calls[2].res = "ConfigError" /\ calls[2].stage = "probe"

\* C10: init and lookup agree on the default metadata directory: after
\* init(content_directory) with repo_directory omitted succeeds, the lookup
\* from_content(content_directory) without a directory hint succeeds and
\* resolves to the directory init created, the .gitpress subdirectory.
C10_InitLookupAgree ==
    \A i \in 1..(Len(calls) - 1) :
        ( /\ calls[i].op = "init" /\ calls[i].res = "ok" /\ calls[i].repo.isNone
          /\ calls[i + 1].op = "from_content" /\ calls[i + 1].repo.isNone
          /\ calls[i + 1].content = calls[i].content )
        => /\ calls[i + 1].res = "ok"
           /\ Abspath(calls[i + 1].directory) = Abspath(calls[i].directory)

----------------------------------------------------------------------------
(* An opened repository: plugins and themes *)

PluginNames == {"x", "y"}
ThemeNames == {"default", "dark"}
ThemeInputs == ThemeNames \cup {"nosuch"}

\* number of management calls followed in one behaviour
MaxOps == 3

EmptyMap == [n \in {} |-> "{}"]
Missing == [kind |-> "missing", map |-> EmptyMap]
Malformed == [kind |-> "malformed", map |-> EmptyMap]
Dict(m) == [kind |-> "dict", map |-> m]

\* Config.get(key, default, expect=dict, silent): a missing key gives the
\* default; a value of another type gives the default when silent and is an
\* error otherwise
ConfigGet(value, silent) ==
    IF value.kind = "missing" THEN [raised |-> "", map |-> EmptyMap]
    ELSE IF value.kind = "malformed"
         THEN IF silent THEN [raised |-> "", map |-> EmptyMap]
              ELSE [raised |-> "ConfigSchemaError", map |-> EmptyMap]
         ELSE [raised |-> "", map |-> value.map]

\* Config.set(key, value) stores the value and returns the one it replaces
ConfigSet(old, new) == [stored |-> new, returned |-> old]

RECURSIVE SetToSeq(_)
SetToSeq(S) ==
    IF S = {} THEN <<>>
    ELSE LET e == CHOOSE e \in S : TRUE IN <<e>> \o SetToSeq(S \ {e})

\* Repository.plugins(): one PluginRequirement per key of the mapping
plugins(value) ==
    LET m == ConfigGet(value, TRUE).map
        names == SetToSeq(DOMAIN m)
    IN [i \in 1..Len(names) |-> [name |-> names[i], options |-> m[names[i]]]]

\* add_plugin that does not look for the plugin first
add_plugin_unchecked(value, plugin) ==
    LET got == ConfigGet(value, FALSE) IN
    IF got.raised # "" THEN [res |-> got.raised, plugins |-> value]
    ELSE [res |-> "True",
          plugins |-> ConfigSet(value, Dict([n \in DOMAIN got.map \cup {plugin} |->
                         IF n = plugin THEN "{}" ELSE got.map[n]])).stored]

\* Repository.add_plugin(plugin)
add_plugin(value, plugin) ==
    LET got == ConfigGet(value, FALSE) IN
    IF got.raised # "" THEN [res |-> got.raised, plugins |-> value]
    ELSE IF plugin \in DOMAIN got.map THEN [res |-> "False", plugins |-> value]
    ELSE [res |-> "True",
          plugins |-> ConfigSet(value, Dict([n \in DOMAIN got.map \cup {plugin} |->
                         IF n = plugin THEN "{}" ELSE got.map[n]])).stored]

\* remove_plugin that saves the mapping before it looks for the plugin
remove_plugin_saves_first(value, plugin) ==
    LET got == ConfigGet(value, FALSE) IN
    IF got.raised # "" THEN [res |-> got.raised, plugins |-> value]
    ELSE IF plugin \notin DOMAIN got.map
         THEN [res |-> "False", plugins |-> ConfigSet(value, Dict(got.map)).stored]
    ELSE [res |-> "True",
          plugins |-> ConfigSet(value, Dict([n \in DOMAIN got.map \ {plugin} |->
                         got.map[n]])).stored]

\* Repository.remove_plugin(plugin)
remove_plugin(value, plugin) ==
    LET got == ConfigGet(value, FALSE) IN
    IF got.raised # "" THEN [res |-> got.raised, plugins |-> value]
    ELSE IF plugin \notin DOMAIN got.map THEN [res |-> "False", plugins |-> value]
    ELSE [res |-> "True",
          plugins |-> ConfigSet(value, Dict([n \in DOMAIN got.map \ {plugin} |->
                         got.map[n]])).stored]

\* Repository.themes(): the entries of <directory>/themes, or None
themes(dir) == IF dir.exists THEN [isNone |-> FALSE, names |-> dir.names]
               ELSE [isNone |-> TRUE, names |-> {}]

\* use_theme that compares the new value of the key with the theme
use_theme_compares_new(theme, dir, name) ==
    LET installed == themes(dir) IN
    IF installed.isNone THEN [res |-> "TypeError", theme |-> theme]
    ELSE IF name \notin installed.names
         THEN [res |-> "ThemeNotFoundError", theme |-> theme]
    ELSE LET set == ConfigSet(theme, name) IN
         [res |-> IF set.stored # name THEN "True" ELSE "False", theme |-> set.stored]

\* Repository.use_theme(theme); `theme not in None` is a TypeError
use_theme(theme, dir, name) ==
    LET installed == themes(dir) IN
    IF installed.isNone THEN [res |-> "TypeError", theme |-> theme]
    ELSE IF name \notin installed.names
         THEN [res |-> "ThemeNotFoundError", theme |-> theme]
    ELSE LET set == ConfigSet(theme, name) IN
         [res |-> IF set.returned # name THEN "True" ELSE "False", theme |-> set.stored]

Snapshot(p, t) == [plugins |-> p, theme |-> t]
OpRec(op, arg, res, before, after) ==
    [op |-> op, arg |-> arg, res |-> res, before |-> before, after |-> after]

AddPlugin(p) ==
    LET out == add_plugin(cfgPlugins, p) IN
    /\ Len(ops) < MaxOps
    /\ cfgPlugins' = out.plugins
    /\ ops' = Append(ops, OpRec("add_plugin", p, out.res,
                    Snapshot(cfgPlugins, cfgTheme), Snapshot(out.plugins, cfgTheme)))
    /\ UNCHANGED <<cfgTheme, themesDir>>

RemovePlugin(p) ==
    LET out == remove_plugin(cfgPlugins, p) IN
    /\ Len(ops) < MaxOps
    /\ cfgPlugins' = out.plugins
    /\ ops' = Append(ops, OpRec("remove_plugin", p, out.res,
                    Snapshot(cfgPlugins, cfgTheme), Snapshot(out.plugins, cfgTheme)))
    /\ UNCHANGED <<cfgTheme, themesDir>>

UseTheme(t) ==
    LET out == use_theme(cfgTheme, themesDir, t) IN
    /\ Len(ops) < MaxOps
    /\ cfgTheme' = out.theme
    /\ ops' = Append(ops, OpRec("use_theme", t, out.res,
                    Snapshot(cfgPlugins, cfgTheme), Snapshot(cfgPlugins, out.theme)))
    /\ UNCHANGED <<cfgPlugins, themesDir>>

\* the plugins mappings a config file may hold: entries written by hand carry options
InitialMaps == UNION {[S -> {"opts"}] : S \in SUBSET PluginNames}

InitRepo ==
    /\ cwd = <<"w">>
    /\ cfgPlugins \in {Missing, Malformed} \cup {Dict(m) : m \in InitialMaps}
    /\ cfgTheme \in {"None"} \cup ThemeNames
    /\ themesDir \in {[exists |-> FALSE, names |-> {}]} \cup
                     {[exists |-> TRUE, names |-> S] : S \in SUBSET ThemeNames}
    /\ ops = <<>>
    /\ buildCall = <<>> /\ presenterCall = <<>>
    /\ IdlePath /\ IdleFs /\ IdlePreview

NextRepo ==
    \/ \E p \in PluginNames :
          AddPlugin(p) /\ UNCHANGED <<cwd, pathVars, fsVars, buildCall, presenterCall, previewVars>>
    \/ \E p \in PluginNames :
          RemovePlugin(p) /\ UNCHANGED <<cwd, pathVars, fsVars, buildCall, presenterCall, previewVars>>
    \/ \E t \in ThemeInputs :
          UseTheme(t) /\ UNCHANGED <<cwd, pathVars, fsVars, buildCall, presenterCall, previewVars>>

SpecRepo == InitRepo /\ [][NextRepo]_vars

PluginNamed(value, name) == {i \in DOMAIN plugins(value) : plugins(value)[i].name = name}

\* C3: from a state whose plugins mapping is well formed and has no x,
\* add_plugin(x) followed by add_plugin(x) returns true then false, the second
\* call leaves the stored mapping as it was, and plugins() then has exactly
\* one entry named x.
C3_AddTwice ==
    \A i \in 1..(Len(ops) - 1) :
        ( /\ ops[i].op = "add_plugin" /\ ops[i + 1].op = "add_plugin"
          /\ ops[i].arg = ops[i + 1].arg
          /\ ops[i].before.plugins.kind # "malformed"
          /\ PluginNamed(ops[i].before.plugins, ops[i].arg) = {} )
        => /\ ops[i].res = "True"
           /\ ops[i + 1].res = "False"
           /\ ops[i + 1].after = ops[i + 1].before
           /\ Cardinality(PluginNamed(ops[i + 1].after.plugins, ops[i].arg)) = 1

C3_Witness ==
    /\ Len(ops) = 3
    /\ ops[1].op = "remove_plugin" /\ ops[1].arg = "x" /\ ops[1].res = "True"
    /\ ops[2].op = "add_plugin" /\ ops[2].arg = "x" /\ ops[2].res = "True"
    /\ ops[3].op = "add_plugin" /\ ops[3].arg = "x" /\ ops[3].res = "False"
    /\ Len(plugins(cfgPlugins)) = 2

\* C4 as claimed: whenever plugins() has no entry named x, also when the
\* plugins key is missing or malformed, remove_plugin(x) returns false and
\* leaves plugins() and the stored config unchanged.
C4_RemoveAbsentTolerant ==
    \A i \in 1..Len(ops) :
        ( /\ ops[i].op = "remove_plugin"
          /\ PluginNamed(ops[i].before.plugins, ops[i].arg) = {} )
        => /\ ops[i].res = "False"
           /\ ops[i].after = ops[i].before

\* C4 amended: when the plugins key is missing or holds a mapping without x,
\* remove_plugin(x) returns false and leaves plugins() and the stored config
\* unchanged; when the key is malformed remove_plugin(x) fails with the
\* config's schema error, and the stored config is unchanged as well.
C4_RemoveAbsent ==
    \A i \in 1..Len(ops) :
        ( /\ ops[i].op = "remove_plugin"
          /\ PluginNamed(ops[i].before.plugins, ops[i].arg) = {} )
        => /\ ops[i].res = IF ops[i].before.plugins.kind = "malformed"
                           THEN "ConfigSchemaError" ELSE "False"
           /\ ops[i].after = ops[i].before
           /\ plugins(ops[i].after.plugins) = plugins(ops[i].before.plugins)

C4_Witness ==
    /\ Len(ops) = 2
    /\ ops[1].op = "remove_plugin" /\ ops[1].arg = "x" /\ ops[1].res = "True"
    /\ ops[2].op = "remove_plugin" /\ ops[2].arg = "x" /\ ops[2].res = "False"
    /\ Len(plugins(cfgPlugins)) = 1

Installed(dir) == IF dir.exists THEN dir.names ELSE {}

\* C5: use_theme(t) for a theme t that is not installed always fails with
\* ThemeNotFoundError and with no other error, also when the metadata
\* directory has no themes subdirectory.
C5_UnknownThemeRejected ==
    \A i \in 1..Len(ops) :
        (ops[i].op = "use_theme" /\ ops[i].arg \notin Installed(themesDir))
        => ops[i].res = "ThemeNotFoundError"

\* C6: for an installed theme t, use_theme(t) stores t under the theme key and
\* returns true exactly when the theme active before differed from t; so the
\* theme key is the argument of the last successful use_theme, and
\* use_theme(t) repeated at once returns false.
C6_UseTheme ==
    /\ \A i \in 1..Len(ops) :
          (ops[i].op = "use_theme" /\ ops[i].arg \in Installed(themesDir))
          => /\ ops[i].after.theme = ops[i].arg
             /\ ops[i].res = IF ops[i].before.theme # ops[i].arg THEN "True" ELSE "False"
    /\ \A i \in 1..Len(ops) :
          ( /\ ops[i].op = "use_theme" /\ ops[i].res \in {"True", "False"}
            /\ \A j \in (i + 1)..Len(ops) :
                  ~(ops[j].op = "use_theme" /\ ops[j].res \in {"True", "False"}) )
          => cfgTheme = ops[i].arg
    /\ \A i \in 1..(Len(ops) - 1) :
          ( /\ ops[i].op = "use_theme" /\ ops[i].arg \in Installed(themesDir)
            /\ ops[i + 1].op = "use_theme" /\ ops[i + 1].arg = ops[i].arg )
          => ops[i + 1].res = "False"

C6_Witness ==
    /\ Len(ops) = 3
    /\ ops[1].op = "use_theme" /\ ops[1].arg = "dark" /\ ops[1].res = "True"
    /\ ops[2].op = "use_theme" /\ ops[2].arg = "default" /\ ops[2].res = "True"
    /\ ops[3].op = "use_theme" /\ ops[3].arg = "default" /\ ops[3].res = "False"
    /\ cfgTheme = "default"

----------------------------------------------------------------------------
(* Repository.build *)

\* number of build calls followed in one behaviour
MaxBuilds == 2

OutDirectoryInputs == {"None", "/srv/out", "out"}
FlagInputs == {"True", "False"}
\* what Presenter.build may do: return a path or raise
PresenterOutcomes == {"/tmp/out", "/w/c/_site", "raise BuildError"}

\* self.presenter.build(out_directory): the arguments the presenter receives
PresenterArgs(out_directory, virtualenv) ==
    [out_directory |-> out_directory, virtualenv |-> "unset"]

\* Repository.build(out_directory, virtualenv)
Build(out_directory, virtualenv) ==
    \E outcome \in PresenterOutcomes :
        LET args == PresenterArgs(out_directory, virtualenv) IN
        /\ Len(buildCall) < MaxBuilds
        /\ presenterCall' = Append(presenterCall,
              [out_directory |-> args.out_directory, virtualenv |-> args.virtualenv,
               outcome |-> outcome])
        /\ buildCall' = Append(buildCall,
              [out_directory |-> out_directory, virtualenv |-> virtualenv,
               res |-> outcome])

InitBuild ==
    /\ cwd = <<"w">>
    /\ IdlePath /\ IdleFs /\ IdleRepo /\ IdlePreview

NextBuild ==
    \E o \in OutDirectoryInputs, v \in FlagInputs :
        Build(o, v) /\ UNCHANGED <<cwd, pathVars, fsVars, cfgPlugins, cfgTheme,
                                   themesDir, ops, previewVars>>

SpecBuild == InitBuild /\ [][NextBuild]_vars

\* C8: build is a pure pass-through: each call reaches the presenter's build
\* once, with the caller's out_directory and the caller's isolation flag, and
\* gives back what the presenter returned or raised.
C8_BuildPassThrough ==
    /\ Len(presenterCall) = Len(buildCall)
    /\ \A i \in 1..Len(buildCall) :
          /\ presenterCall[i].out_directory = buildCall[i].out_directory
          /\ presenterCall[i].virtualenv = buildCall[i].virtualenv
          /\ buildCall[i].res = presenterCall[i].outcome

----------------------------------------------------------------------------
(* Repository.preview and previewing.preview *)

default_host == "127.0.0.1"
default_port == 5000

\* requests served in one behaviour
MaxRequests == 2

\* "" and 0 stand for an omitted (or empty) host and port
HostInputs == {"", "0.0.0.0"}
PortInputs == {0, 8080}
DirectoryInputs == {NoPath, Abs(<<"w", "c">>)}
OutDirs == {<<"w", "c", "_site">>, <<"tmp", "out">>}

\* preview that enters the serve loop before it prints the address
StepAfterServeFirst(step) ==
    IF step = "build" THEN "chdir"
    ELSE IF step = "chdir" THEN "bind"
    ELSE IF step = "bind" THEN "serve"
    ELSE IF step = "serve" THEN "report"
    ELSE "serving"

\* the statement preview runs after each of its statements
StepAfter(step) ==
    IF step = "build" THEN "chdir"
    ELSE IF step = "chdir" THEN "bind"
    ELSE IF step = "bind" THEN "report"
    ELSE IF step = "report" THEN "serve"
    ELSE "serving"

Event(step, arg) == [step |-> step, arg |-> arg]

\* Repository.preview(host, port) calling preview(content_directory, host, port)
PreviewCall(directory, host, port) ==
    /\ pc = "idle"
    /\ pv' = [directory |-> IF directory.isNone THEN Rel(<<".">>) ELSE directory,
              host |-> IF host = "" THEN default_host ELSE host,
              port |-> IF port = 0 THEN default_port ELSE port,
              out_directory |-> <<>>, requests |-> 0,
              given |-> [host |-> host, port |-> port]]
    /\ pc' = "build"
    /\ UNCHANGED <<cwd, events>>

\* out_directory = build(directory)
PreviewBuild ==
    /\ pc = "build"
    /\ \/ \E out \in OutDirs :
            /\ pv' = [pv EXCEPT !.out_directory = out]
            /\ events' = Append(events, Event("build", pv.directory.parts))
            /\ pc' = StepAfter("build")
       \/ /\ pc' = "raised in build"
          /\ UNCHANGED <<pv, events>>
    /\ UNCHANGED cwd

\* os.chdir(out_directory)
PreviewChdir ==
    /\ pc = "chdir"
    /\ cwd' = pv.out_directory
    /\ events' = Append(events, Event("chdir", pv.out_directory))
    /\ pc' = StepAfter("chdir")
    /\ UNCHANGED pv

\* httpd = SocketServer.TCPServer((host, port), Handler)
PreviewBind ==
    /\ pc = "bind"
    /\ \/ /\ events' = Append(events, Event("bind", <<pv.host, pv.port>>))
          /\ pc' = StepAfter("bind")
       \/ /\ pc' = "raised in bind"
          /\ UNCHANGED events
    /\ UNCHANGED <<cwd, pv>>

\* print ' * Serving on http://%s:%s/' % (host, port)
PreviewReport ==
    /\ pc = "report"
    /\ events' = Append(events, Event("report", <<pv.host, pv.port>>))
    /\ pc' = StepAfter("report")
    /\ UNCHANGED <<cwd, pv>>

\* httpd.serve_forever() is entered
PreviewServe ==
    /\ pc = "serve"
    /\ events' = Append(events, Event("serve", <<>>))
    /\ pc' = StepAfter("serve")
    /\ UNCHANGED <<cwd, pv>>

\* the serve loop handles a request
PreviewRequest ==
    /\ pc = "serving"
    /\ pv.requests < MaxRequests
    /\ pv' = [pv EXCEPT !.requests = @ + 1]
    /\ UNCHANGED <<cwd, pc, events>>

\* the process is interrupted from outside while it serves
PreviewInterrupt ==
    /\ pc = "serving"
    /\ pc' = "interrupted"
    /\ UNCHANGED <<cwd, pv, events>>

InitPreview ==
    /\ cwd \in {<<"w">>, <<"w", "c">>}
    /\ pc = "idle" /\ pv = <<>> /\ events = <<>>
    /\ IdlePath /\ IdleFs /\ IdleRepo

NextPreview ==
    \/ \E d \in DirectoryInputs, h \in HostInputs, p \in PortInputs :
          PreviewCall(d, h, p) /\ UNCHANGED <<pathVars, fsVars, repoVars>>
    \/ PreviewBuild /\ UNCHANGED <<pathVars, fsVars, repoVars>>
    \/ PreviewChdir /\ UNCHANGED <<pathVars, fsVars, repoVars>>
    \/ PreviewBind /\ UNCHANGED <<pathVars, fsVars, repoVars>>
    \/ PreviewReport /\ UNCHANGED <<pathVars, fsVars, repoVars>>
    \/ PreviewServe /\ UNCHANGED <<pathVars, fsVars, repoVars>>
    \/ PreviewRequest /\ UNCHANGED <<pathVars, fsVars, repoVars>>
    \/ PreviewInterrupt /\ UNCHANGED <<pathVars, fsVars, repoVars>>

SpecPreview == InitPreview /\ [][NextPreview]_vars

PreviewOrder == <<"build", "chdir", "bind", "report", "serve">>
Steps(log) == [i \in 1..Len(log) |-> log[i].step]
Did(step) == \E i \in 1..Len(events) : events[i].step = step

\* C9: preview runs its steps in the order build, change of working
\* directory to the build's output, bind to host:port (127.0.0.1:5000 when
\* omitted), report of the bound address, serve loop; the address is reported
\* before the serve loop starts, the serve loop is not entered when the build
\* or the bind fails, and once entered it is left only by an interrupt.
C9_PreviewOrder ==
    /\ [] ( /\ Len(events) <= Len(PreviewOrder)
            /\ Steps(events) = SubSeq(PreviewOrder, 1, Len(events))
            /\ Did("chdir") => cwd = pv.out_directory
            /\ \A i \in 1..Len(events) :
                  events[i].step \in {"bind", "report"} =>
                      events[i].arg =
                          << IF pv.given.host = "" THEN "127.0.0.1" ELSE pv.given.host,
                             IF pv.given.port = 0 THEN 5000 ELSE pv.given.port >>
            /\ pc = "serving" => Did("report") /\ Did("serve")
            /\ pc \in {"raised in build", "raised in bind"} => ~Did("serve") )
    /\ [][ /\ pc \in {"raised in build", "raised in bind"} => pc' = pc
           /\ (pc = "serving" /\ pc' # "serving") => pc' = "interrupted" ]_vars

C9_Witness ==
    /\ pc = "interrupted"
    /\ Steps(events) = PreviewOrder
    /\ pv.given.port = 0 /\ events[3].arg = <<"127.0.0.1", 5000>>
    /\ pv.requests = MaxRequests

====
